---- MODULE Spec2Model ----
(***************************************************************************)
(* Model of the news early-warning pipeline.                               *)
(*                                                                         *)
(*   src/src/early_warning_system.py  the linear script                    *)
(*       (fetch_news, parse_json_response, send_email_alert,               *)
(*        run_early_warning_system)                       -> Spec          *)
(*   src/src/main.py                  the four-node workflow               *)
(*       (fetch_news_node, filter_news_node, analyze_risk_node,            *)
(*        report_node, check_relevance)                   -> WorkflowSpec  *)
(*   parse_json_response on its own, over every short text -> ParseSpec    *)
(*                                                                         *)
(* A completion text is a sequence of tokens.  The code works on texts in  *)
(* three ways and each is modelled on the tokens: str.replace of the two   *)
(* code-fence markers, str.strip, json.loads (parse_json_response), and    *)
(* the substring tests of main.py.                                         *)
(***************************************************************************)
EXTENDS Integers, Sequences, FiniteSets, TLC

(***************************************************************************)
(* Bounds.                                                                 *)
(***************************************************************************)
\* greatest number of articles the retrieval service returns in a run
MaxArticles == 2
\* greatest length (in tokens) of a text given to the parser in ParseSpec
MaxTextLen == 5

(***************************************************************************)
(* Texts.                                                                  *)
(***************************************************************************)
Tok(k, a, b) == [k |-> k, a |-> a, b |-> b]

\* the marker ```json
FenceJson == Tok("fencejson", "", "")
\* the marker ```
Fence == Tok("fence", "", "")
\* a run of whitespace (blank, newline)
Ws == Tok("ws", "", "")
LB == Tok("lbrace", "", "")
RB == Tok("rbrace", "", "")
Comma == Tok("comma", "", "")
\* the characters  "key": val   (one blank after the colon)
Member(key, val) == Tok("member", key, val)
\* a JSON literal standing alone: true, [1], null, 0 ...
Lit(val) == Tok("lit", "", val)
\* any other run of characters
Word(w) == Tok("word", "", w)

\* the literals json.loads accepts as a value
JsonLiterals ==
    { "true", "false", "null", "0", "1", "[1]", "[]",
      "\"r\"", "\"s\"", "\"false\"", "\"High\"", "\"Medium\"", "\"Low\"",
      "\"High inflation\"", "\"Market Risk\"", "\"Credit Risk\"", "\"None\"" }

\* the keys of the objects the prompts ask for, and one in another case
Keys ==
    { "is_relevant", "Is_Relevant", "reason", "risk_type", "impact_level",
      "send_alert", "impact", "summary" }

\* dict.get(key) of a key the dict does not hold is None; the model keeps
\* "no such key" apart from a key holding null
Absent == "ABSENT"

EmptyDict == [key \in Keys |-> Absent]

(***************************************************************************)
(* Python values returned by json.loads / parse_json_response.             *)
(***************************************************************************)
PyDict(d) == [kind |-> "dict", d |-> d, s |-> ""]
\* a value that is not a dict: None, True, False, a number, a list, a str
PyValue(lit) == [kind |-> "value", d |-> EmptyDict, s |-> lit]
PyNone == PyValue("null")
\* json.JSONDecodeError raised
DecodeError == [kind |-> "error", d |-> EmptyDict, s |-> ""]

\* Python truth value of a parsed literal (None for a missing key included)
FalsyLiterals == { "false", "null", "0", "[]", "\"\"", Absent }
TruthyLit(lit) == lit \notin FalsyLiterals

\* truth value of what json.loads returned: an empty dict is falsy
Truthy(v) ==
    IF v.kind = "dict"
    THEN \E key \in Keys : v.d[key] # Absent
    ELSE TruthyLit(v.s)

(***************************************************************************)
(* parse_json_response                                                     *)
(***************************************************************************)
IsNotFenceJson(t) == t.k # "fencejson"
IsNotFence(t) == t.k # "fence"
IsNotWs(t) == t.k # "ws"

\* response_text.replace("```json", "").replace("```", "")
RemoveFences(text) == SelectSeq(SelectSeq(text, IsNotFenceJson), IsNotFence)

RECURSIVE LStrip(_)
LStrip(text) ==
    IF text # <<>> /\ Head(text).k = "ws" THEN LStrip(Tail(text)) ELSE text

RECURSIVE RStrip(_)
RStrip(text) ==
    IF text # <<>> /\ text[Len(text)].k = "ws"
    THEN RStrip(SubSeq(text, 1, Len(text) - 1))
    ELSE text

\* str.strip()
Strip(text) == RStrip(LStrip(text))

\* the members of an object body: member (, member)*, or nothing
WellFormedBody(body) ==
    \/ body = <<>>
    \/ /\ Len(body) % 2 = 1
       /\ \A i \in 1..Len(body) :
            IF i % 2 = 1
            THEN /\ body[i].k = "member"
                 /\ body[i].a \in Keys
                 /\ body[i].b \in JsonLiterals
            ELSE body[i].k = "comma"

\* the dict of an object body: of a repeated key the last member wins
DictOf(body) ==
    [key \in Keys |->
        LET at == { i \in 1..Len(body) : body[i].k = "member" /\ body[i].a = key }
        IN  IF at = {} THEN Absent
            ELSE body[CHOOSE i \in at : \A j \in at : j <= i].b]

\* json.loads(cleaned)
JsonLoads(cleaned) ==
    IF Len(cleaned) = 1 /\ cleaned[1].k = "lit" /\ cleaned[1].b \in JsonLiterals
    THEN PyValue(cleaned[1].b)
    ELSE IF /\ Len(cleaned) >= 2
            /\ cleaned[1].k = "lbrace"
            /\ cleaned[Len(cleaned)].k = "rbrace"
            /\ WellFormedBody(SelectSeq(SubSeq(cleaned, 2, Len(cleaned) - 1), IsNotWs))
         THEN PyDict(DictOf(SelectSeq(SubSeq(cleaned, 2, Len(cleaned) - 1), IsNotWs)))
         ELSE DecodeError

\* parse_json_response(response_text): except json.JSONDecodeError: return None
parse_json_response(response_text) ==
    LET loaded == JsonLoads(Strip(RemoveFences(response_text)))
    IN  IF loaded.kind = "error" THEN PyNone ELSE loaded

(***************************************************************************)
(* State.                                                                  *)
(***************************************************************************)
VARIABLES
    \* ---- early_warning_system.py: run_early_warning_system ----
    pc,               \* position in the script
    articles,         \* what fetch_news() returned
    idx,              \* position of the for loop in articles
    headline, content, url,
    filter_res_raw, filter_data,
    analysis_res_raw, risk_data, risk_type, impact_level,
    summary_res,
    stdout,           \* the lines printed
    sent,             \* the calls of send_email_alert
    calls,            \* the calls of llm.invoke, with what each returned
    \* ---- main.py: the compiled workflow ----
    w_pc,             \* the node (and the place in it) that runs next
    w_state,          \* AgentState: the keys set so far and their values
    w_i,              \* position of the running node's for loop
    w_relevant,       \* filter_news_node's local relevant_news
    w_risks,          \* analyze_risk_node's local analyzed_risks
    w_calls,          \* the calls of llm.invoke, with what each returned
    w_stdout,         \* the lines printed
    \* ---- parse_json_response alone ----
    p_pc, p_text, p_result

linearVars ==
    << pc, articles, idx, headline, content, url, filter_res_raw, filter_data,
       analysis_res_raw, risk_data, risk_type, impact_level, summary_res,
       stdout, sent, calls >>
workflowVars == << w_pc, w_state, w_i, w_relevant, w_risks, w_calls, w_stdout >>
parseVars == << p_pc, p_text, p_result >>
vars == << linearVars, workflowVars, parseVars >>

\* a Python name not bound yet
Unbound == "UNBOUND"
UnboundText == << Tok("unbound", "", "") >>
UnboundValue == [kind |-> "unbound", d |-> EmptyDict, s |-> ""]
\* Python None held by a name or a field
None == "NONE"
\* what the log keeps of a call of llm.invoke that raised
Raised == << Tok("raised", "", "") >>

(***************************************************************************)
(* Articles.                                                               *)
(***************************************************************************)
Article(title, description, u) ==
    [title |-> title, description |-> description, url |-> u]

\* the i-th article of a NewsAPI answer: a record of the Article data
\* model, which always carries a title; NewsAPI gives a null description
\* for some articles (here: the even ones).  NextArticle models what line
\* 170 does with a title of None all the same.
ApiArticle(i) ==
    Article("api title " \o ToString(i),
            IF i % 2 = 0 THEN None ELSE "api description " \o ToString(i),
            "http://api-news.com/" \o ToString(i))

ApiArticles(n) == [i \in 1..n |-> ApiArticle(i)]

\* the mock data of fetch_news
MockArticles ==
    << Article("Central Bank announces surprise 0.5% interest rate hike due to inflation fears",
               "The monetary policy committee decided to raise rates immediately. Markets are tumbling.",
               "http://test-news.com/1"),
       Article("New iPhone 16 features leaked ahead of launch",
               "Apple's new phone will feature a better camera and AI capabilities.",
               "http://test-news.com/2"),
       Article("Major Real Estate Developer files for bankruptcy protection",
               "One of the largest developers has defaulted on its $5B debt obligations.",
               "http://test-news.com/3") >>

\* the mock data of fetch_news_node
WorkflowMockArticles ==
    << Article("Central Bank hikes rates by 0.75%", "Inflation control measures...",
               "http://test.com/1"),
       Article("New K-Pop star debut", "Entertainment news...", "http://test.com/2") >>

(***************************************************************************)
(* Completion texts the model lets llm.invoke return.                      *)
(***************************************************************************)
FilterFencedTrue ==
    << FenceJson, Ws, LB, Member("is_relevant", "true"), Comma,
       Member("reason", "\"r\""), RB, Ws, Fence >>
FilterFalse == << LB, Member("is_relevant", "false"), RB >>
FilterNotJson == << Word("not json") >>
FilterArray == << Lit("[1]") >>
FilterTrueThenFalse ==
    << LB, Member("is_relevant", "true"), Comma, Member("is_relevant", "false"), RB >>
FilterStringFalse == << LB, Member("is_relevant", "\"false\""), RB >>
FilterOtherCase == << LB, Member("Is_Relevant", "true"), RB >>

FilterCompletions ==
    { FilterFencedTrue, FilterFalse, FilterNotJson, FilterArray,
      FilterTrueThenFalse, FilterStringFalse }

WorkflowFilterCompletions ==
    { FilterFencedTrue, FilterFalse, FilterNotJson, FilterTrueThenFalse,
      FilterOtherCase }

AnalysisHigh ==
    << LB, Member("risk_type", "\"Market Risk\""), Comma,
       Member("impact_level", "\"High\""), Comma, Member("send_alert", "true"), RB >>
AnalysisLow ==
    << LB, Member("risk_type", "\"None\""), Comma,
       Member("impact_level", "\"Low\""), Comma, Member("send_alert", "false"), RB >>
AnalysisLowButAlert ==
    << LB, Member("risk_type", "\"Credit Risk\""), Comma,
       Member("impact_level", "\"Low\""), Comma, Member("send_alert", "true"), RB >>
AnalysisNotJson == << Word("The impact is High") >>
AnalysisArray == << Lit("[1]") >>

AnalysisCompletions ==
    { AnalysisHigh, AnalysisLow, AnalysisLowButAlert, AnalysisNotJson, AnalysisArray }

WorkflowAnalysisHigh ==
    << LB, Member("risk_type", "\"Market Risk\""), Comma,
       Member("impact", "\"High\""), Comma, Member("summary", "\"s\""), RB >>
WorkflowAnalysisLow ==
    << LB, Member("risk_type", "\"None\""), Comma,
       Member("impact", "\"Low\""), Comma, Member("summary", "\"s\""), RB >>
WorkflowAnalysisLowHighWord ==
    << LB, Member("risk_type", "\"None\""), Comma,
       Member("impact", "\"Low\""), Comma, Member("summary", "\"High inflation\""), RB >>
WorkflowAnalysisPlain == << Word("no risk") >>

WorkflowAnalysisCompletions ==
    { WorkflowAnalysisHigh, WorkflowAnalysisLow, WorkflowAnalysisLowHighWord,
      AnalysisNotJson, WorkflowAnalysisPlain }

SummaryA == << Word("briefing a") >>
SummaryB == << Word("briefing b") >>
SummaryCompletions == { SummaryA, SummaryB }

(***************************************************************************)
(* early_warning_system.py: the linear script.                             *)
(***************************************************************************)
Line(tag, arg) == [tag |-> tag, arg |-> arg]

\* one call of llm.invoke: the stage whose prompt was sent, the position of
\* the loop, the headline the prompt was formatted from, and the completion
\* (or Raised)
Call(stage, art, head, res) == [stage |-> stage, art |-> art, headline |-> head, res |-> res]

\* one call of send_email_alert(subject, body): the risk_type put into the
\* subject, and the two parts of the body
Email(rtype, summary, source) == [risk_type |-> rtype, summary |-> summary, url |-> source]

\* data.get(key); AttributeError when data is not a dict
HasGet(data) == data.kind = "dict"
Get(data, key) == data.d[key]

\* a truthy value without .get: the conditions of lines 177 and 191 raise
\* AttributeError on it
GetRaises(data) == Truthy(data) /\ ~HasGet(data)

\* a gate that is closed only by a parsed false: "if filter_data and not
\* filter_data.get('is_relevant')", so that a parse failure passes
FilterRejectsParsedOnly(data) == Truthy(data) /\ ~TruthyLit(Get(data, "is_relevant"))

\* line 177: not filter_data or not filter_data.get('is_relevant')
FilterRejects(data) == ~Truthy(data) \/ ~TruthyLit(Get(data, "is_relevant"))

\* line 191: not risk_data or not risk_data.get('send_alert')
AnalyzeRejects(data) == ~Truthy(data) \/ ~TruthyLit(Get(data, "send_alert"))

\* the script leaves the other programs' state alone
LinearOnly ==
    UNCHANGED << w_pc, w_state, w_i, w_relevant, w_risks, w_calls, w_stdout,
                 p_pc, p_text, p_result >>

\* a loop that takes the same article again instead of the next one
AdvanceRetry ==
    /\ idx' = idx
    /\ pc' = "loop"

\* continue / end of the loop body: on to the next article
Advance ==
    /\ idx' = idx + 1
    /\ pc' = "loop"

\* fetch_news(): the API answers with n articles; an empty answer falls
\* through to the mock data
FetchNews(n) ==
    /\ LinearOnly
    /\ pc = "start"
    /\ articles' = IF n > 0 THEN ApiArticles(n) ELSE MockArticles
    /\ idx' = 1
    /\ pc' = "loop"
    /\ UNCHANGED << headline, content, url, filter_res_raw, filter_data,
                    analysis_res_raw, risk_data, risk_type, impact_level,
                    summary_res, stdout, sent, calls >>

\* a fetch_news without its except clause: the exception ends the run
FetchNewsFailsPropagates ==
    /\ LinearOnly
    /\ pc = "start"
    /\ pc' = "crashed"
    /\ UNCHANGED << articles, idx, headline, content, url, filter_res_raw,
                    filter_data, analysis_res_raw, risk_data, risk_type,
                    impact_level, summary_res, stdout, sent, calls >>

\* fetch_news(): NewsApiClient or get_top_headlines raises
FetchNewsFails ==
    /\ LinearOnly
    /\ pc = "start"
    /\ articles' = MockArticles
    /\ stdout' = Append(stdout, Line("Info", "API Call Failed or No Key. Using Mock Data."))
    /\ idx' = 1
    /\ pc' = "loop"
    /\ UNCHANGED << headline, content, url, filter_res_raw, filter_data,
                    analysis_res_raw, risk_data, risk_type, impact_level,
                    summary_res, sent, calls >>

\* lines 165-170: the next article, its fields, the Processing line;
\* headline[:50] of a missing title is a TypeError outside every try
NextArticle ==
    /\ LinearOnly
    /\ pc = "loop"
    /\ idx <= Len(articles)
    /\ headline' = articles[idx].title
    /\ content' = IF articles[idx].description # None
                  THEN articles[idx].description ELSE articles[idx].title
    /\ url' = articles[idx].url
    /\ IF articles[idx].title = None
       THEN /\ pc' = "crashed"
            /\ stdout' = stdout
       ELSE /\ pc' = "filter"
            /\ stdout' = Append(stdout, Line("Processing", articles[idx].title))
    /\ UNCHANGED << articles, idx, filter_res_raw, filter_data, analysis_res_raw,
                    risk_data, risk_type, impact_level, summary_res, sent, calls >>

\* the for loop is exhausted: run_early_warning_system returns
LoopExit ==
    /\ LinearOnly
    /\ pc = "loop"
    /\ idx > Len(articles)
    /\ pc' = "done"
    /\ UNCHANGED << articles, idx, headline, content, url, filter_res_raw,
                    filter_data, analysis_res_raw, risk_data, risk_type,
                    impact_level, summary_res, stdout, sent, calls >>

\* lines 173-184, llm.invoke returns res
FilterStep(res) ==
    /\ LinearOnly
    /\ pc = "filter"
    /\ calls' = Append(calls, Call("filter", idx, headline, res))
    /\ filter_res_raw' = res
    /\ filter_data' = parse_json_response(res)
    /\ LET data == parse_json_response(res) IN
       IF GetRaises(data)
       THEN /\ stdout' = Append(stdout, Line("Error Filter Step", "AttributeError"))
            /\ Advance
       ELSE IF FilterRejects(data)
       THEN /\ stdout' = Append(stdout, Line("Skipped",
                    IF Truthy(data) THEN Get(data, "reason") ELSE "Parse Error"))
            /\ Advance
       ELSE /\ stdout' = Append(stdout, Line("Relevant", ""))
            /\ idx' = idx
            /\ pc' = "analyze"
    /\ UNCHANGED << articles, headline, content, url, analysis_res_raw, risk_data,
                    risk_type, impact_level, summary_res, sent >>

\* a Filter step without its except clause: the exception ends the run
FilterRaiseAborts ==
    /\ LinearOnly
    /\ pc = "filter"
    /\ calls' = Append(calls, Call("filter", idx, headline, Raised))
    /\ pc' = "crashed"
    /\ UNCHANGED << articles, idx, headline, content, url, filter_res_raw,
                    filter_data, analysis_res_raw, risk_data, risk_type,
                    impact_level, summary_res, stdout, sent >>

\* lines 173-182, llm.invoke raises
FilterRaise ==
    /\ LinearOnly
    /\ pc = "filter"
    /\ calls' = Append(calls, Call("filter", idx, headline, Raised))
    /\ stdout' = Append(stdout, Line("Error Filter Step", "CompletionError"))
    /\ Advance
    /\ UNCHANGED << articles, headline, content, url, filter_res_raw, filter_data,
                    analysis_res_raw, risk_data, risk_type, impact_level,
                    summary_res, sent >>

\* lines 187-201, llm.invoke returns res
AnalyzeStep(res) ==
    /\ LinearOnly
    /\ pc = "analyze"
    /\ calls' = Append(calls, Call("analyze", idx, headline, res))
    /\ analysis_res_raw' = res
    /\ risk_data' = parse_json_response(res)
    /\ LET data == parse_json_response(res) IN
       IF GetRaises(data)
       THEN /\ stdout' = Append(stdout, Line("Error Analysis Step", "AttributeError"))
            /\ Advance
            /\ UNCHANGED << risk_type, impact_level >>
       ELSE IF AnalyzeRejects(data)
       THEN /\ stdout' = Append(stdout, Line("Safe",
                    IF Truthy(data) THEN Get(data, "risk_type") ELSE "Parse Error"))
            /\ Advance
            /\ UNCHANGED << risk_type, impact_level >>
       ELSE /\ risk_type' = Get(data, "risk_type")
            /\ impact_level' = Get(data, "impact_level")
            /\ stdout' = Append(stdout, Line("ALERT", Get(data, "risk_type")))
            /\ idx' = idx
            /\ pc' = "summarize"
    /\ UNCHANGED << articles, headline, content, url, filter_res_raw, filter_data,
                    summary_res, sent >>

\* lines 187-201, llm.invoke raises
AnalyzeRaise ==
    /\ LinearOnly
    /\ pc = "analyze"
    /\ calls' = Append(calls, Call("analyze", idx, headline, Raised))
    /\ stdout' = Append(stdout, Line("Error Analysis Step", "CompletionError"))
    /\ Advance
    /\ UNCHANGED << articles, headline, content, url, filter_res_raw, filter_data,
                    analysis_res_raw, risk_data, risk_type, impact_level,
                    summary_res, sent >>

\* a Summarize step that builds the body and forgets to hand it over
SummarizeStepDrops(res) ==
    /\ LinearOnly
    /\ pc = "summarize"
    /\ calls' = Append(calls, Call("summarize", idx, headline, res))
    /\ summary_res' = res
    /\ stdout' = stdout
    /\ Advance
    /\ UNCHANGED << articles, headline, content, url, filter_res_raw, filter_data,
                    analysis_res_raw, risk_data, risk_type, impact_level, sent >>

\* a Summarize stage that builds the body with the first article's url
SummarizeStepFirstUrl(res) ==
    /\ LinearOnly
    /\ pc = "summarize"
    /\ calls' = Append(calls, Call("summarize", idx, headline, res))
    /\ summary_res' = res
    /\ sent' = Append(sent, Email(risk_type, res, articles[1].url))
    /\ stdout' = Append(stdout, Line("EMAIL SENT", risk_type))
    /\ Advance
    /\ UNCHANGED << articles, headline, content, url, filter_res_raw, filter_data,
                    analysis_res_raw, risk_data, risk_type, impact_level >>

\* lines 204-213, llm.invoke returns res: the body is built and handed
\* to send_email_alert, which prints it
SummarizeStep(res) ==
    /\ LinearOnly
    /\ pc = "summarize"
    /\ calls' = Append(calls, Call("summarize", idx, headline, res))
    /\ summary_res' = res
    /\ sent' = Append(sent, Email(risk_type, res, url))
    /\ stdout' = Append(stdout, Line("EMAIL SENT", risk_type))
    /\ Advance
    /\ UNCHANGED << articles, headline, content, url, filter_res_raw, filter_data,
                    analysis_res_raw, risk_data, risk_type, impact_level >>

\* lines 204-216, llm.invoke raises
SummarizeRaise ==
    /\ LinearOnly
    /\ pc = "summarize"
    /\ calls' = Append(calls, Call("summarize", idx, headline, Raised))
    /\ stdout' = Append(stdout, Line("Error Summary Step", "CompletionError"))
    /\ Advance
    /\ UNCHANGED << articles, headline, content, url, filter_res_raw, filter_data,
                    analysis_res_raw, risk_data, risk_type, impact_level,
                    summary_res, sent >>

LinearIdle ==
    /\ pc = "idle"
    /\ articles = << >>
    /\ idx = 0
    /\ headline = Unbound /\ content = Unbound /\ url = Unbound
    /\ filter_res_raw = UnboundText /\ filter_data = UnboundValue
    /\ analysis_res_raw = UnboundText /\ risk_data = UnboundValue
    /\ risk_type = Unbound /\ impact_level = Unbound
    /\ summary_res = UnboundText
    /\ stdout = << >> /\ sent = << >> /\ calls = << >>

\* the script at line 162, nothing fetched yet
LinearInit ==
    /\ pc = "start"
    /\ articles = << >>
    /\ idx = 0
    /\ headline = Unbound /\ content = Unbound /\ url = Unbound
    /\ filter_res_raw = UnboundText /\ filter_data = UnboundValue
    /\ analysis_res_raw = UnboundText /\ risk_data = UnboundValue
    /\ risk_type = Unbound /\ impact_level = Unbound
    /\ summary_res = UnboundText
    /\ stdout = << Line("Starting Scan", "") >> /\ sent = << >> /\ calls = << >>

(***************************************************************************)
(* main.py: the workflow.                                                  *)
(***************************************************************************)
\* AgentState as the graph holds it: the keys written so far, and a value
\* for each key (meaningful only when the key is set)
AgentState(keys, raw, relevant, risks, body) ==
    [keys |-> keys, raw_headlines |-> raw, relevant_news |-> relevant,
     analyzed_risks |-> risks, final_email_body |-> body]

\* app.invoke({"raw_headlines": []})
InitialAgentState == AgentState({"raw_headlines"}, << >>, << >>, << >>, UnboundText)

\* one call of llm.invoke: the node, the article (0 for the report), the
\* text put into the prompt, and the completion (or Raised)
WCall(stage, art, prompt, res) ==
    [stage |-> stage, art |-> art, prompt |-> prompt, res |-> res]

\* str.lower() on the strings the texts are made of
LowerStr(str) ==
    CASE str = "Is_Relevant" -> "is_relevant"
      [] str = "True" -> "true"
      [] OTHER -> str

\* res.lower()
Lower(text) == [i \in 1..Len(text) |-> Tok(text[i].k, LowerStr(text[i].a), LowerStr(text[i].b))]

\* line 76: '"is_relevant": true' in res.lower()
HasRelevantTrue(res) ==
    \E i \in 1..Len(res) : Lower(res)[i] = Member("is_relevant", "true")

\* the strings of the texts in which "High" (resp. "Medium") occurs
StringsWithHigh == { "\"High\"", "\"High inflation\"", "The impact is High" }
StringsWithMedium == { "\"Medium\"" }

\* line 113: "High" in res or "Medium" in res
HasHighOrMedium(res) ==
    \E i \in 1..Len(res) :
        \/ res[i].a \in StringsWithHigh \cup StringsWithMedium
        \/ res[i].b \in StringsWithHigh \cup StringsWithMedium

\* one entry of analyzed_risks
Risk(news, analysis) == [original |-> news, analysis |-> analysis]

\* line 130: "\n".join([str(r['analysis']) for r in risks])
RECURSIVE JoinAnalyses(_)
JoinAnalyses(risks) ==
    IF risks = << >> THEN << >>
    ELSE IF Len(risks) = 1 THEN risks[1].analysis
    ELSE risks[1].analysis \o << Ws >> \o JoinAnalyses(Tail(risks))

NoRiskBody == << Word("No significant risks detected.") >>

ReportCompletions == { SummaryA, SummaryB }

\* the workflow leaves the other programs' state alone
WorkflowOnly ==
    UNCHANGED << pc, articles, idx, headline, content, url, filter_res_raw,
                 filter_data, analysis_res_raw, risk_data, risk_type,
                 impact_level, summary_res, stdout, sent, calls,
                 p_pc, p_text, p_result >>

\* fetch_news_node: the API answers with n articles (an empty answer is
\* passed on as it is)
FetchNewsNode(n) ==
    /\ WorkflowOnly
    /\ w_pc = "fetch"
    /\ w_state' = [w_state EXCEPT !.keys = @ \cup {"raw_headlines"},
                                  !.raw_headlines = ApiArticles(n)]
    /\ w_stdout' = Append(w_stdout, Line("Step 1", ""))
    /\ w_pc' = "filter"
    /\ w_i' = 1
    /\ UNCHANGED << w_relevant, w_risks, w_calls >>

\* fetch_news_node: the API raises
FetchNewsNodeFails ==
    /\ WorkflowOnly
    /\ w_pc = "fetch"
    /\ w_state' = [w_state EXCEPT !.keys = @ \cup {"raw_headlines"},
                                  !.raw_headlines = WorkflowMockArticles]
    /\ w_stdout' = w_stdout \o << Line("Step 1", ""), Line("API Error", "using Mock Data") >>
    /\ w_pc' = "filter"
    /\ w_i' = 1
    /\ UNCHANGED << w_relevant, w_risks, w_calls >>

\* a filter node that puts an accepted article in front of the earlier ones
FilterNewsStepPrepends(res) ==
    /\ WorkflowOnly
    /\ w_pc = "filter"
    /\ w_i <= Len(w_state.raw_headlines)
    /\ LET news == w_state.raw_headlines[w_i] IN
       /\ w_calls' = Append(w_calls, WCall("filter", w_i, << Word(news.title) >>, res))
       /\ IF HasRelevantTrue(res)
          THEN /\ w_relevant' = << news >> \o w_relevant
               /\ w_stdout' = Append(w_stdout, Line("Relevant", news.title))
          ELSE /\ w_relevant' = w_relevant
               /\ w_stdout' = Append(w_stdout, Line("Skipped", news.title))
    /\ w_i' = w_i + 1
    /\ UNCHANGED << w_pc, w_state, w_risks >>

\* filter_news_node, lines 72-80: llm.invoke returns res for the next article
FilterNewsStep(res) ==
    /\ WorkflowOnly
    /\ w_pc = "filter"
    /\ w_i <= Len(w_state.raw_headlines)
    /\ LET news == w_state.raw_headlines[w_i] IN
       /\ w_calls' = Append(w_calls, WCall("filter", w_i, << Word(news.title) >>, res))
       /\ IF HasRelevantTrue(res)
          THEN /\ w_relevant' = Append(w_relevant, news)
               /\ w_stdout' = Append(w_stdout, Line("Relevant", news.title))
          ELSE /\ w_relevant' = w_relevant
               /\ w_stdout' = Append(w_stdout, Line("Skipped", news.title))
    /\ w_i' = w_i + 1
    /\ UNCHANGED << w_pc, w_state, w_risks >>

\* filter_news_node, lines 81-82: llm.invoke raises, except: continue
FilterNewsRaise ==
    /\ WorkflowOnly
    /\ w_pc = "filter"
    /\ w_i <= Len(w_state.raw_headlines)
    /\ w_calls' = Append(w_calls,
            WCall("filter", w_i, << Word(w_state.raw_headlines[w_i].title) >>, Raised))
    /\ w_i' = w_i + 1
    /\ UNCHANGED << w_pc, w_state, w_relevant, w_risks, w_stdout >>

\* filter_news_node, line 84: return {"relevant_news": relevant_news}
FilterNewsReturn ==
    /\ WorkflowOnly
    /\ w_pc = "filter"
    /\ w_i > Len(w_state.raw_headlines)
    /\ w_state' = [w_state EXCEPT !.keys = @ \cup {"relevant_news"},
                                  !.relevant_news = w_relevant]
    /\ w_pc' = "check_relevance"
    /\ UNCHANGED << w_i, w_relevant, w_risks, w_calls, w_stdout >>

\* check_relevance and the conditional edge after "filter"
CheckRelevance ==
    /\ WorkflowOnly
    /\ w_pc = "check_relevance"
    /\ IF w_state.relevant_news = << >>
       THEN /\ w_stdout' = Append(w_stdout, Line("No relevant news found. Ending.", ""))
            /\ w_pc' = "END"
            /\ w_i' = w_i
       ELSE /\ w_stdout' = Append(w_stdout, Line("Step 3", ""))
            /\ w_pc' = "analyze"
            /\ w_i' = 1
    /\ UNCHANGED << w_state, w_relevant, w_risks, w_calls >>

\* analyze_risk_node, lines 107-117: llm.invoke returns res
AnalyzeRiskStep(res) ==
    /\ WorkflowOnly
    /\ w_pc = "analyze"
    /\ w_i <= Len(w_state.relevant_news)
    /\ LET news == w_state.relevant_news[w_i] IN
       /\ w_calls' = Append(w_calls, WCall("analyze", w_i, << Word(news.title) >>, res))
       /\ w_risks' = IF HasHighOrMedium(res)
                     THEN Append(w_risks, Risk(news, res))
                     ELSE w_risks
    /\ w_i' = w_i + 1
    /\ UNCHANGED << w_pc, w_state, w_relevant, w_stdout >>

\* analyze_risk_node, line 109: llm.invoke raises; nothing catches it and
\* app.invoke ends with the exception
AnalyzeRiskRaise ==
    /\ WorkflowOnly
    /\ w_pc = "analyze"
    /\ w_i <= Len(w_state.relevant_news)
    /\ w_calls' = Append(w_calls,
            WCall("analyze", w_i, << Word(w_state.relevant_news[w_i].title) >>, Raised))
    /\ w_pc' = "crashed"
    /\ UNCHANGED << w_state, w_i, w_relevant, w_risks, w_stdout >>

\* analyze_risk_node, line 119: return {"analyzed_risks": analyzed_risks}
AnalyzeRiskReturn ==
    /\ WorkflowOnly
    /\ w_pc = "analyze"
    /\ w_i > Len(w_state.relevant_news)
    /\ w_state' = [w_state EXCEPT !.keys = @ \cup {"analyzed_risks"},
                                  !.analyzed_risks = w_risks]
    /\ w_pc' = "report"
    /\ UNCHANGED << w_i, w_relevant, w_risks, w_calls, w_stdout >>

\* report_node, lines 123-127: nothing to report
ReportNoRisk ==
    /\ WorkflowOnly
    /\ w_pc = "report"
    /\ w_state.analyzed_risks = << >>
    /\ w_state' = [w_state EXCEPT !.keys = @ \cup {"final_email_body"},
                                  !.final_email_body = NoRiskBody]
    /\ w_stdout' = Append(w_stdout, Line("Step 4", ""))
    /\ w_pc' = "END"
    /\ UNCHANGED << w_i, w_relevant, w_risks, w_calls >>

\* report_node, lines 130-147: llm.invoke returns res
ReportStep(res) ==
    /\ WorkflowOnly
    /\ w_pc = "report"
    /\ w_state.analyzed_risks # << >>
    /\ w_calls' = Append(w_calls,
            WCall("report", 0, JoinAnalyses(w_state.analyzed_risks), res))
    /\ w_state' = [w_state EXCEPT !.keys = @ \cup {"final_email_body"},
                                  !.final_email_body = res]
    /\ w_stdout' = w_stdout \o << Line("Step 4", ""), Line("FINAL EMAIL", "") >>
    /\ w_pc' = "END"
    /\ UNCHANGED << w_i, w_relevant, w_risks >>

\* report_node, line 140: llm.invoke raises; nothing catches it
ReportRaise ==
    /\ WorkflowOnly
    /\ w_pc = "report"
    /\ w_state.analyzed_risks # << >>
    /\ w_calls' = Append(w_calls,
            WCall("report", 0, JoinAnalyses(w_state.analyzed_risks), Raised))
    /\ w_stdout' = Append(w_stdout, Line("Step 4", ""))
    /\ w_pc' = "crashed"
    /\ UNCHANGED << w_state, w_i, w_relevant, w_risks >>

WorkflowIdle ==
    /\ w_pc = "idle"
    /\ w_state = InitialAgentState
    /\ w_i = 0
    /\ w_relevant = << >>
    /\ w_risks = << >>
    /\ w_calls = << >>
    /\ w_stdout = << >>

\* app.invoke({"raw_headlines": []}) at the entry point
WorkflowStart ==
    /\ w_pc = "fetch"
    /\ w_state = InitialAgentState
    /\ w_i = 0
    /\ w_relevant = << >>
    /\ w_risks = << >>
    /\ w_calls = << >>
    /\ w_stdout = << >>

ParseIdle ==
    /\ p_pc = "idle"
    /\ p_text = << >>
    /\ p_result = UnboundValue

Init == LinearInit /\ WorkflowIdle /\ ParseIdle

Next ==
    \/ \E n \in 0..MaxArticles : FetchNews(n)
    \/ FetchNewsFails
    \/ NextArticle
    \/ LoopExit
    \/ \E res \in FilterCompletions : FilterStep(res)
    \/ FilterRaise
    \/ \E res \in AnalysisCompletions : AnalyzeStep(res)
    \/ AnalyzeRaise
    \/ \E res \in SummaryCompletions : SummarizeStep(res)
    \/ SummarizeRaise

Spec == Init /\ [][Next]_vars

WorkflowInit == LinearIdle /\ WorkflowStart /\ ParseIdle

WorkflowNext ==
    \/ \E n \in 0..MaxArticles : FetchNewsNode(n)
    \/ FetchNewsNodeFails
    \/ \E res \in WorkflowFilterCompletions : FilterNewsStep(res)
    \/ FilterNewsRaise
    \/ FilterNewsReturn
    \/ CheckRelevance
    \/ \E res \in WorkflowAnalysisCompletions : AnalyzeRiskStep(res)
    \/ AnalyzeRiskRaise
    \/ AnalyzeRiskReturn
    \/ ReportNoRisk
    \/ \E res \in ReportCompletions : ReportStep(res)
    \/ ReportRaise

WorkflowSpec == WorkflowInit /\ [][WorkflowNext]_vars

(***************************************************************************)
(* parse_json_response on its own.                                         *)
(***************************************************************************)
ParseAlphabet ==
    { FenceJson, Fence, Ws, LB, RB, Member("is_relevant", "true"),
      Lit("[1]"), Word("not json") }

\* every text of at most MaxTextLen tokens
ParseTexts == UNION { [1..n -> ParseAlphabet] : n \in 0..MaxTextLen }

\* the program calls parse_json_response(p_text)
ParseCall ==
    /\ p_pc = "call"
    /\ p_result' = parse_json_response(p_text)
    /\ p_pc' = "returned"
    /\ UNCHANGED << p_text, linearVars, workflowVars >>

ParseInit ==
    /\ LinearIdle
    /\ WorkflowIdle
    /\ p_pc = "call"
    /\ p_text \in ParseTexts
    /\ p_result = UnboundValue

ParseNext == ParseCall

ParseSpec == ParseInit /\ [][ParseNext]_vars

(***************************************************************************)
(* Reading the history of a run.                                           *)
(***************************************************************************)
Returned(c) == c.res # Raised

StageNo(stage) ==
    CASE stage = "filter" -> 1
      [] stage = "analyze" -> 2
      [] stage = "summarize" -> 3

\* an alert was handed to send_email_alert for the article at position j
DeliveredFor(j) == \E e \in 1..Len(sent) : sent[e].url = articles[j].url

IsProcessingLine(line) == line.tag = "Processing"
ProcessingLines == SelectSeq(stdout, IsProcessingLine)

\* the step just taken was a call of llm.invoke
CallMade == Len(calls') = Len(calls) + 1
LastCall == calls'[Len(calls')]

\* json.loads of the cleaned text, before the except clause
Decoded(text) == JsonLoads(Strip(RemoveFences(text)))

ParsesIsRelevantFalse(text) ==
    /\ parse_json_response(text).kind = "dict"
    /\ parse_json_response(text).d["is_relevant"] = "false"

\* the run is over or can take a step
RunsOn == pc = "done" \/ ENABLED Next

(***************************************************************************)
(* C1  Gate purity of the Filter stage, in both programs: an article whose *)
(* Filter completion parses to an object with is_relevant = false gets no  *)
(* Analyze call (linear script), and is never put into relevant_news nor   *)
(* analysed (workflow).                                                    *)
(***************************************************************************)
C1_LinearPart ==
    \A k \in 1..Len(calls) :
        (calls[k].stage = "filter" /\ Returned(calls[k])
            /\ ParsesIsRelevantFalse(calls[k].res))
        => \A l \in 1..Len(calls) :
               ~(calls[l].stage = "analyze" /\ calls[l].art = calls[k].art)

C1_WorkflowPart ==
    \A k \in 1..Len(w_calls) :
        (w_calls[k].stage = "filter" /\ Returned(w_calls[k])
            /\ ParsesIsRelevantFalse(w_calls[k].res))
        => /\ \A r \in 1..Len(w_relevant) :
                << Word(w_relevant[r].title) >> # w_calls[k].prompt
           /\ \A l \in 1..Len(w_calls) :
                ~(w_calls[l].stage = "analyze" /\ w_calls[l].prompt = w_calls[k].prompt)

C1_FilterGatePurity == C1_LinearPart /\ C1_WorkflowPart

(***************************************************************************)
(* C2  Every alert handed to send_email_alert belongs to an article whose  *)
(* parsed assessment has impact_level High or Medium; an assessment with   *)
(* send_alert = true and impact_level = Low leads to no Summarize call.    *)
(***************************************************************************)
HighOrMedium == { "\"High\"", "\"Medium\"" }

C2_AlertImpliesHighOrMedium ==
    \A k \in 1..Len(calls) :
        (calls[k].stage = "analyze" /\ Returned(calls[k]))
        => LET data == parse_json_response(calls[k].res) IN
           /\ DeliveredFor(calls[k].art)
                => (data.kind = "dict" /\ data.d["impact_level"] \in HighOrMedium)
           /\ (data.kind = "dict" /\ data.d["send_alert"] = "true"
                    /\ data.d["impact_level"] = "\"Low\"")
                => \A l \in 1..Len(calls) :
                       ~(calls[l].stage = "summarize" /\ calls[l].art = calls[k].art)

(***************************************************************************)
(* C3  Gate purity of the Analyze stage in the workflow: an article whose  *)
(* Analyze completion parses to impact = Low, or is no JSON at all, is     *)
(* never added to analyzed_risks.                                          *)
(***************************************************************************)
LowOrUnparseable(text) ==
    \/ Decoded(text).kind = "error"
    \/ Decoded(text).kind = "dict" /\ Decoded(text).d["impact"] = "\"Low\""

C3_AnalyzeGatePurity ==
    \A k \in 1..Len(w_calls) :
        (w_calls[k].stage = "analyze" /\ Returned(w_calls[k])
            /\ LowOrUnparseable(w_calls[k].res))
        => /\ \A r \in 1..Len(w_risks) :
                << Word(w_risks[r].original.title) >> # w_calls[k].prompt
           /\ \A r \in 1..Len(w_state.analyzed_risks) :
                << Word(w_state.analyzed_risks[r].original.title) >> # w_calls[k].prompt

(***************************************************************************)
(* C4  Fault isolation in the linear script: a call of the completion      *)
(* client that raises, at any of the three stages, ends that article       *)
(* without an alert and the loop goes on with the next article; the run    *)
(* never aborts, it processes every article of the batch, and every        *)
(* article whose three calls returned and passed both gates has its alert  *)
(* delivered; a run in which every call raised ends with no alert.         *)
(***************************************************************************)
\* the three calls of article j returned and its two gates were passed
Qualifies(j) ==
    /\ \E f \in 1..Len(calls) :
        /\ calls[f].art = j /\ calls[f].stage = "filter" /\ Returned(calls[f])
        /\ ~GetRaises(parse_json_response(calls[f].res))
        /\ ~FilterRejects(parse_json_response(calls[f].res))
    /\ \E a \in 1..Len(calls) :
        /\ calls[a].art = j /\ calls[a].stage = "analyze" /\ Returned(calls[a])
        /\ ~GetRaises(parse_json_response(calls[a].res))
        /\ ~AnalyzeRejects(parse_json_response(calls[a].res))
    /\ \E z \in 1..Len(calls) :
        calls[z].art = j /\ calls[z].stage = "summarize" /\ Returned(calls[z])

C4_StateAfterRaise ==
    /\ pc # "crashed"
    /\ RunsOn
    /\ \A k \in 1..Len(calls) : ~Returned(calls[k]) => ~DeliveredFor(calls[k].art)
    /\ pc = "done" =>
        /\ Len(ProcessingLines) = Len(articles)
        /\ \A j \in 1..Len(articles) : Qualifies(j) => DeliveredFor(j)
        /\ (\A k \in 1..Len(calls) : ~Returned(calls[k])) => sent = << >>

C4_RaiseStep ==
    (CallMade /\ ~Returned(LastCall))
        => (pc' = "loop" /\ idx' = idx + 1 /\ sent' = sent)

C4_FaultIsolation == [](C4_StateAfterRaise) /\ [][C4_RaiseStep]_vars

\* a finished run in which calls raised on two articles, at two different
\* stages, and an article after both was delivered
C4_Witness ==
    /\ pc = "done"
    /\ \E k, l \in 1..Len(calls) :
        /\ ~Returned(calls[k]) /\ ~Returned(calls[l])
        /\ calls[k].stage # calls[l].stage
        /\ \E j \in 1..Len(articles) :
            /\ j > calls[k].art /\ j > calls[l].art
            /\ Qualifies(j) /\ DeliveredFor(j)

(***************************************************************************)
(* C5  Fault isolation in the workflow: a call of the completion client    *)
(* that raises never aborts the run, and the stage in which it raised      *)
(* still handles every article given to it.                                *)
(***************************************************************************)
CallsOfStage(stage) == { k \in 1..Len(w_calls) : w_calls[k].stage = stage }

C5_WorkflowFaultIsolation ==
    /\ w_pc # "crashed"
    /\ "relevant_news" \in w_state.keys
        => Cardinality(CallsOfStage("filter")) = Len(w_state.raw_headlines)
    /\ "analyzed_risks" \in w_state.keys
        => Cardinality(CallsOfStage("analyze")) = Len(w_state.relevant_news)
    /\ (w_pc = "END" /\ "analyzed_risks" \in w_state.keys)
        => "final_email_body" \in w_state.keys

(***************************************************************************)
(* C6  Empty-survivor short circuit in the workflow: a run whose Filter    *)
(* stage accepts no article ends with final_email_body holding the no-risk *)
(* report, and makes no Analyze or report call.                            *)
(***************************************************************************)
C6_EmptySurvivorShortCircuit ==
    ("relevant_news" \in w_state.keys /\ w_state.relevant_news = << >>)
    => /\ CallsOfStage("analyze") = {}
       /\ CallsOfStage("report") = {}
       /\ w_pc \notin {"analyze", "report"}
       /\ w_pc = "END"
            => /\ "final_email_body" \in w_state.keys
               /\ w_state.final_email_body = NoRiskBody

(***************************************************************************)
(* C7  In the linear script every run comes to its end, and a run that     *)
(* ends having delivered no alert has printed a "no risk found" report.    *)
(***************************************************************************)
IsNoRiskReport(line) == line.tag = "No risk found"

C7_ZeroAlertsReport ==
    /\ RunsOn
    /\ (pc = "done" /\ sent = << >>)
        => \E m \in 1..Len(stdout) : IsNoRiskReport(stdout[m])

(***************************************************************************)
(* C8  In the linear script a parse failure closes the gate: when          *)
(* parse_json_response gives its failure value for a Filter or Analyze     *)
(* completion, the article is rejected at that stage (the Skipped / Safe   *)
(* line with "Parse Error"), no later call and no alert happens for it,    *)
(* the run does not abort, and the loop goes on with the next article.     *)
(***************************************************************************)
ParseFailed(c) ==
    /\ c.stage \in {"filter", "analyze"}
    /\ Returned(c)
    /\ parse_json_response(c.res) = PyNone

C8_StateAfterParseFailure ==
    \A k \in 1..Len(calls) :
        ParseFailed(calls[k])
        => /\ \A l \in 1..Len(calls) : l > k => calls[l].art # calls[k].art
           /\ ~DeliveredFor(calls[k].art)
           /\ pc # "crashed"
           /\ RunsOn
           /\ pc = "done" => Len(ProcessingLines) = Len(articles)

C8_ParseFailureStep ==
    (CallMade /\ ParseFailed(LastCall))
        => /\ pc' = "loop"
           /\ idx' = idx + 1
           /\ sent' = sent
           /\ stdout' = Append(stdout,
                  Line(IF LastCall.stage = "filter" THEN "Skipped" ELSE "Safe",
                       "Parse Error"))

C8_ParseFailureClosesGate ==
    [](C8_StateAfterParseFailure) /\ [][C8_ParseFailureStep]_vars

\* a finished run with a parse failure at the Filter stage of one article,
\* at the Analyze stage of another, and an article processed after each
C8_Witness ==
    /\ pc = "done"
    /\ \A stage \in {"filter", "analyze"} :
        \E k \in 1..Len(calls) :
            /\ calls[k].stage = stage
            /\ ParseFailed(calls[k])
            /\ \E l \in 1..Len(calls) : calls[l].art = calls[k].art + 1

(***************************************************************************)
(* C9  parse_json_response returns a mapping or the failure value and      *)
(* nothing else: a fenced JSON object gives its mapping, the empty text    *)
(* and text that is no JSON give the failure value.                        *)
(***************************************************************************)
C9_ParseMappingOrFailure ==
    p_pc = "returned"
    => /\ p_result.kind = "dict" \/ p_result = PyNone
       /\ p_text = << FenceJson, LB, Member("is_relevant", "true"), RB, Fence >>
            => p_result = PyDict([EmptyDict EXCEPT !["is_relevant"] = "true"])
       /\ p_text = << >> => p_result = PyNone
       /\ p_text = << Word("not json") >> => p_result = PyNone

(***************************************************************************)
(* C10  Ordering in the linear script: the calls of the completion client  *)
(* go through the articles in the order fetch_news returned them, all      *)
(* calls of an article before any call of the next; within an article the  *)
(* calls are Filter, Analyze, Summarize, each at most once and none        *)
(* without the one before it; a run over M articles makes at most 3*M      *)
(* calls.                                                                  *)
(***************************************************************************)
C10_Ordering ==
    /\ \A k \in 1..Len(calls) :
        /\ calls[k].art \in 1..Len(articles)
        /\ calls[k].headline = articles[calls[k].art].title
        /\ calls[k].stage # "filter"
            => /\ k > 1
               /\ calls[k - 1].art = calls[k].art
               /\ StageNo(calls[k - 1].stage) = StageNo(calls[k].stage) - 1
               /\ Returned(calls[k - 1])
    /\ \A k, l \in 1..Len(calls) :
        k < l => \/ calls[k].art < calls[l].art
                 \/ /\ calls[k].art = calls[l].art
                    /\ StageNo(calls[k].stage) < StageNo(calls[l].stage)
    /\ \A m \in 1..Len(ProcessingLines) :
        m <= Len(articles) /\ ProcessingLines[m].arg = articles[m].title
    /\ Len(calls) <= 3 * Len(articles)

\* a finished run in which one article went through all three stages and
\* the next one was called for as well
C10_Witness ==
    /\ pc = "done"
    /\ \E k \in 1..Len(calls) :
        /\ calls[k].stage = "summarize"
        /\ \E l \in 1..Len(calls) : calls[l].art = calls[k].art + 1 /\ calls[l].stage = "analyze"

(***************************************************************************)
(* C11  Stage 3 of the linear script has no gate: at the end of a run      *)
(* every article that passed the Analyze gate has exactly one alert, and   *)
(* every other article has none, so that each article ends FilterRejected, *)
(* AnalyzeRejected or Delivered, whatever the completion client does.      *)
(***************************************************************************)
\* the alerts handed to send_email_alert for the article at position j
AlertsFor(j) == { e \in 1..Len(sent) : sent[e].url = articles[j].url }

\* the Analyze call of article j returned an object whose send_alert holds
PassedAnalyzeGate(j) ==
    \E a \in 1..Len(calls) :
        /\ calls[a].art = j /\ calls[a].stage = "analyze" /\ Returned(calls[a])
        /\ parse_json_response(calls[a].res).kind = "dict"
        /\ TruthyLit(parse_json_response(calls[a].res).d["send_alert"])

SummarizeReturned(j) ==
    \E z \in 1..Len(calls) :
        calls[z].art = j /\ calls[z].stage = "summarize" /\ Returned(calls[z])

SummarizeRaised(j) ==
    \E z \in 1..Len(calls) :
        calls[z].art = j /\ calls[z].stage = "summarize" /\ ~Returned(calls[z])

C11_EveryAcceptedDelivered ==
    pc = "done" =>
        \A j \in 1..Len(articles) :
            Cardinality(AlertsFor(j)) = IF PassedAnalyzeGate(j) THEN 1 ELSE 0

\* C11 as amended: at the end of a run every article that passed the
\* Analyze gate and whose Summarize call returned has exactly one alert;
\* an article whose Summarize call raised has passed the gate and has none
\* (a fourth end state); every other article has none.
C11_AcceptedDeliveredUnlessRaise ==
    pc = "done" =>
        \A j \in 1..Len(articles) :
            /\ Cardinality(AlertsFor(j)) =
                    IF PassedAnalyzeGate(j) /\ SummarizeReturned(j) THEN 1 ELSE 0
            /\ PassedAnalyzeGate(j) => (SummarizeReturned(j) \/ SummarizeRaised(j))
            /\ SummarizeRaised(j) => PassedAnalyzeGate(j)

\* a finished run with one article delivered and another that passed the
\* Analyze gate and lost its alert to a raising Summarize call
C11_Witness ==
    /\ pc = "done"
    /\ \E j \in 1..Len(articles) :
        PassedAnalyzeGate(j) /\ SummarizeReturned(j) /\ Cardinality(AlertsFor(j)) = 1
    /\ \E j \in 1..Len(articles) :
        PassedAnalyzeGate(j) /\ SummarizeRaised(j) /\ AlertsFor(j) = {}

(***************************************************************************)
(* Both programs from their start to the end of the Filter stage: the      *)
(* retrieval step of each and the stage that follows it.                   *)
(***************************************************************************)
RetrievalInit == LinearInit /\ WorkflowStart /\ ParseIdle

\* one accepting and one rejecting Filter completion are enough here
RetrievalFilterCompletions == { FilterFencedTrue, FilterFalse }

RetrievalNext ==
    \/ \E n \in 0..MaxArticles : FetchNews(n)
    \/ FetchNewsFails
    \/ NextArticle
    \/ \E res \in RetrievalFilterCompletions : FilterStep(res)
    \/ FilterRaise
    \/ LoopExit
    \/ \E n \in 0..MaxArticles : FetchNewsNode(n)
    \/ FetchNewsNodeFails
    \/ \E res \in RetrievalFilterCompletions : FilterNewsStep(res)
    \/ FilterNewsRaise
    \/ FilterNewsReturn

RetrievalSpec == RetrievalInit /\ [][RetrievalNext]_vars

(***************************************************************************)
(* C12  Retrieval fallback, in both programs: when the news retrieval call *)
(* raises, the fetch step does not pass the error on and gives the fixed   *)
(* local fixture of at least 2 articles, and the stage after it works on   *)
(* the articles of that fixture.                                           *)
(***************************************************************************)
\* fetch_news went through its except clause (line 112 printed)
RetrievalRaised == \E m \in 1..Len(stdout) : stdout[m].tag = "Info"
\* fetch_news_node went through its except clause (line 50 printed)
WorkflowRetrievalRaised == \E m \in 1..Len(w_stdout) : w_stdout[m].tag = "API Error"

TitlesOf(batch) == { batch[j].title : j \in 1..Len(batch) }

C12_RetrievalFallback ==
    /\ pc # "crashed"
    /\ w_pc # "crashed"
    /\ pc # "start" => Len(articles) >= 1
    /\ RetrievalRaised
        => /\ articles = MockArticles
           /\ Len(articles) >= 2
           /\ pc # "start"
           /\ \A k \in 1..Len(calls) : calls[k].headline \in TitlesOf(MockArticles)
    /\ WorkflowRetrievalRaised
        => /\ w_state.raw_headlines = WorkflowMockArticles
           /\ Len(w_state.raw_headlines) >= 2
           /\ w_pc # "fetch"
           /\ \A k \in 1..Len(w_calls) :
                \E t \in TitlesOf(WorkflowMockArticles) : w_calls[k].prompt = << Word(t) >>

\* both retrievals raised and the Filter stage of each program has called
\* the completion client for every article of its fixture
C12_Witness ==
    /\ RetrievalRaised
    /\ WorkflowRetrievalRaised
    /\ pc = "done"
    /\ Len(calls) = Len(MockArticles)
    /\ "relevant_news" \in w_state.keys
    /\ Len(w_calls) = Len(WorkflowMockArticles)

(***************************************************************************)
(* The linear script over every record the retrieval service can return:   *)
(* NewsAPI may answer with an article whose title is null (article.get     *)
(* gives None for a missing title as well).                                *)
(***************************************************************************)
\* the API answers with n articles of which the k-th has no title
UntitledArticles(n, k) ==
    [i \in 1..n |-> IF i = k THEN [ApiArticle(i) EXCEPT !.title = None]
                             ELSE ApiArticle(i)]

\* fetch_news(): lines 104-110 with such an answer
FetchNewsUntitled(n, k) ==
    /\ LinearOnly
    /\ pc = "start"
    /\ articles' = UntitledArticles(n, k)
    /\ idx' = 1
    /\ pc' = "loop"
    /\ UNCHANGED << headline, content, url, filter_res_raw, filter_data,
                    analysis_res_raw, risk_data, risk_type, impact_level,
                    summary_res, stdout, sent, calls >>

UntitledNext ==
    \/ \E n \in 1..MaxArticles : \E k \in 1..n : FetchNewsUntitled(n, k)
    \/ \E n \in 0..MaxArticles : FetchNews(n)
    \/ FetchNewsFails
    \/ NextArticle
    \/ LoopExit
    \/ \E res \in FilterCompletions : FilterStep(res)
    \/ FilterRaise
    \/ \E res \in AnalysisCompletions : AnalyzeStep(res)
    \/ AnalyzeRaise
    \/ \E res \in SummaryCompletions : SummarizeStep(res)
    \/ SummarizeRaise

UntitledSpec == Init /\ [][UntitledNext]_vars

(***************************************************************************)
(* C13  Per-item failure isolation in the linear script, for every record  *)
(* the retrieval service can return, a record without a title included: an *)
(* error raised while one article is processed never aborts the run, and   *)
(* every later article is still processed.                                 *)
(***************************************************************************)
C13_PerItemIsolation ==
    /\ pc # "crashed"
    /\ pc = "done"
        => \A j \in 1..Len(articles) :
               articles[j].title # None
               => \E m \in 1..Len(stdout) :
                      stdout[m] = Line("Processing", articles[j].title)

\* the value a completion's parsed object holds under key (Absent when the
\* key is missing or the completion does not parse to an object)
ParsedField(text, key) ==
    LET data == parse_json_response(text) IN
    IF data.kind = "dict" THEN data.d[key] ELSE Absent

(***************************************************************************)
(* C14  The stage gates of the linear script pass only on the boolean      *)
(* true: an Analyze call is made for an article only when its Filter       *)
(* completion parsed to is_relevant = true, and a Summarize call only when *)
(* its Analyze completion parsed to send_alert = true; a missing field or  *)
(* any other value (the string "false", a number) is rejected.             *)
(***************************************************************************)
C14_GatesPassOnlyOnTrue ==
    \A k \in 1..Len(calls) :
        /\ calls[k].stage = "analyze"
            => /\ k > 1
               /\ calls[k - 1].art = calls[k].art
               /\ calls[k - 1].stage = "filter"
               /\ Returned(calls[k - 1])
               /\ ParsedField(calls[k - 1].res, "is_relevant") = "true"
        /\ calls[k].stage = "summarize"
            => /\ k > 1
               /\ calls[k - 1].art = calls[k].art
               /\ calls[k - 1].stage = "analyze"
               /\ Returned(calls[k - 1])
               /\ ParsedField(calls[k - 1].res, "send_alert") = "true"

\* the articles the alert count is stated over
FilterSaysTrue(j) ==
    \E f \in 1..Len(calls) :
        /\ calls[f].art = j /\ calls[f].stage = "filter" /\ Returned(calls[f])
        /\ ParsedField(calls[f].res, "is_relevant") = "true"

AnalyzeSaysTrue(j) ==
    \E a \in 1..Len(calls) :
        /\ calls[a].art = j /\ calls[a].stage = "analyze" /\ Returned(calls[a])
        /\ ParsedField(calls[a].res, "send_alert") = "true"

NoCallFailed == \A k \in 1..Len(calls) : Returned(calls[k])

\* the position in the batch of the article an alert was sent for
ArticleOf(e) == CHOOSE j \in 1..Len(articles) : articles[j].url = sent[e].url

(***************************************************************************)
(* C15  Alert count in the linear script: in a finished run where no call  *)
(* failed, the alerts are exactly one for each article whose Filter        *)
(* completion parses to is_relevant = true and whose Analyze completion    *)
(* parses to send_alert = true, none for any other article, in article     *)
(* order.                                                                  *)
(***************************************************************************)
C15_AlertCount ==
    (pc = "done" /\ NoCallFailed)
    => /\ \A j \in 1..Len(articles) :
            Cardinality(AlertsFor(j))
              = IF FilterSaysTrue(j) /\ AnalyzeSaysTrue(j) THEN 1 ELSE 0
       /\ \A e \in 1..Len(sent) : \E j \in 1..Len(articles) : articles[j].url = sent[e].url
       /\ \A e \in 1..Len(sent) : e > 1 => ArticleOf(e - 1) < ArticleOf(e)

\* the lines that state the outcome of an article at the Filter stage
FilterOutcomeTags == { "Skipped", "Relevant", "Error Filter Step" }
WorkflowFilterOutcomeTags == { "Skipped", "Relevant" }

FilterOutcomeLines == { m \in 1..Len(stdout) : stdout[m].tag \in FilterOutcomeTags }
WorkflowFilterOutcomeLines ==
    { m \in 1..Len(w_stdout) : w_stdout[m].tag \in WorkflowFilterOutcomeTags }

LinearFilterCalls == { k \in 1..Len(calls) : calls[k].stage = "filter" }

(***************************************************************************)
(* C16  In both implementations every processed article yields at least    *)
(* one log line stating its outcome, an article on which the completion    *)
(* client fails included: each Filter call, returning or raising, comes    *)
(* with one outcome line of that article.                                  *)
(***************************************************************************)
C16_LinearPart == Cardinality(FilterOutcomeLines) = Cardinality(LinearFilterCalls)

C16_WorkflowPart ==
    Cardinality(WorkflowFilterOutcomeLines) = Cardinality(CallsOfStage("filter"))

C16_EveryArticleLogged == C16_LinearPart /\ C16_WorkflowPart

\* report_node has run to its end, by a return or by an exception
ReportStageOver == w_pc \in {"END", "crashed"} /\ "analyzed_risks" \in w_state.keys

(***************************************************************************)
(* C17  Workflow report stage: with an empty analyzed_risks the report     *)
(* node sets final_email_body to the fixed no-risk message and makes no    *)
(* completion call; with a non-empty one it makes exactly one call, over   *)
(* the survivors' analyses joined in survivor order, and sets              *)
(* final_email_body to that completion; so a run that reached the report   *)
(* stage ends with exactly one final artifact, the no-risk message if and  *)
(* only if Stage 2 had no survivors.                                       *)
(***************************************************************************)
C17_ReportStage ==
    ReportStageOver
    => /\ "final_email_body" \in w_state.keys
       /\ w_state.analyzed_risks = << >>
            => /\ CallsOfStage("report") = {}
               /\ w_state.final_email_body = NoRiskBody
       /\ w_state.analyzed_risks # << >>
            => /\ Cardinality(CallsOfStage("report")) = 1
               /\ w_calls[Len(w_calls)].stage = "report"
               /\ w_calls[Len(w_calls)].prompt = JoinAnalyses(w_state.analyzed_risks)
               /\ w_calls[Len(w_calls)].res = w_state.final_email_body
               /\ w_state.final_email_body # NoRiskBody

\* s is t with some elements left out, the others in t's order
RECURSIVE IsSubseq(_, _)
IsSubseq(s, t) ==
    IF s = << >> THEN TRUE
    ELSE IF t = << >> THEN FALSE
    ELSE IF Head(s) = Head(t) THEN IsSubseq(Tail(s), Tail(t))
    ELSE IsSubseq(s, Tail(t))

\* [r['original'] for r in risks]
Originals(risks) == [i \in 1..Len(risks) |-> risks[i].original]

C18_Subsequences ==
    /\ IsSubseq(w_state.relevant_news, w_state.raw_headlines)
    /\ IsSubseq(Originals(w_state.analyzed_risks), w_state.relevant_news)
    /\ IsSubseq(w_relevant, w_state.raw_headlines)
    /\ "relevant_news" \in w_state.keys => IsSubseq(Originals(w_risks), w_state.relevant_news)

C18_EarlierFieldsKept ==
    /\ w_pc \in {"filter", "check_relevance"}
        => w_state'.raw_headlines = w_state.raw_headlines
    /\ w_pc = "analyze"
        => /\ w_state'.raw_headlines = w_state.raw_headlines
           /\ w_state'.relevant_news = w_state.relevant_news
    /\ w_pc = "report"
        => /\ w_state'.raw_headlines = w_state.raw_headlines
           /\ w_state'.relevant_news = w_state.relevant_news
           /\ w_state'.analyzed_risks = w_state.analyzed_risks
    /\ w_state.keys \subseteq w_state'.keys

(***************************************************************************)
(* C18  Workflow state is accumulate-only: in every reachable state        *)
(* relevant_news is an order-preserving subsequence of raw_headlines and   *)
(* the 'original' articles of analyzed_risks are an order-preserving       *)
(* subsequence of relevant_news, and no node changes a field written by an *)
(* earlier node.                                                           *)
(***************************************************************************)
C18_AccumulateOnly == [](C18_Subsequences) /\ [][C18_EarlierFieldsKept]_vars

\* a finished run with two accepted articles, the first of which was
\* dropped by the Analyze node, and a report written
C18_Witness ==
    /\ w_pc = "END"
    /\ "final_email_body" \in w_state.keys
    /\ Len(w_state.raw_headlines) >= 2
    /\ Len(w_state.relevant_news) >= 2
    /\ Len(w_state.analyzed_risks) = 1
    /\ w_state.analyzed_risks[1].original = w_state.relevant_news[2]

\* the alert e was built from the Summarize call k and the Analyze call
\* before it, both made for the article whose url the alert carries
BuiltFrom(e, k) ==
    /\ k > 1
    /\ calls[k].stage = "summarize"
    /\ calls[k].headline = articles[calls[k].art].title
    /\ articles[calls[k].art].url = sent[e].url
    /\ calls[k].res = sent[e].summary
    /\ calls[k - 1].stage = "analyze"
    /\ calls[k - 1].art = calls[k].art
    /\ ParsedField(calls[k - 1].res, "risk_type") = sent[e].risk_type

(***************************************************************************)
(* C19  Alert provenance in the linear script: every alert handed to       *)
(* send_email_alert carries the risk_type parsed from the Analyze          *)
(* completion of the one article being processed, that article's          *)
(* Summarize completion and that article's url, and nothing of any other   *)
(* article, whatever happened to the articles before it.                   *)
(***************************************************************************)
C19_AlertProvenance ==
    /\ \A e \in 1..Len(sent) : \E k \in 1..Len(calls) : BuiltFrom(e, k)
    /\ \A e \in 1..Len(sent) :
         Cardinality({ j \in 1..Len(articles) : articles[j].url = sent[e].url }) = 1

\* a finished run over three articles: a call raised on the first, and the
\* two after it were delivered with different risk types and summaries
C19_Witness ==
    /\ pc = "done"
    /\ Len(articles) = 3
    /\ Len(sent) = 2
    /\ \E k \in 1..Len(calls) : calls[k].art = 1 /\ ~Returned(calls[k])
    /\ sent[1].url = articles[2].url /\ sent[2].url = articles[3].url
    /\ sent[1].risk_type # sent[2].risk_type
    /\ sent[1].summary # sent[2].summary

====
